---- MODULE Spec2Model ----
(***************************************************************************)
(* Model of Smash::Grid<Options> (src/src/include/grid.h): construction of *)
(* the cell grid from a particle list and the half-shell traversal         *)
(* iterate_cells; and of the two operations of Smash::DeformedNucleus     *)
(* (deformednucleus.cc) that raise std::domain_error.                      *)
(*                                                                         *)
(* Lengths and coordinates are integers counting TENTHS of a length unit   *)
(* (a position x in the program is 10*x here), so the interaction length   *)
(* 2.5 is the integer 25.  The float products of the program are modelled  *)
(* by exact rational arithmetic: index_factor_ is a fraction num/den per   *)
(* tenth.  For the coordinates used here the float32 results and the exact *)
(* results have the same floor and ceiling.                                *)
(***************************************************************************)
EXTENDS Integers, Sequences, FiniteSets, TLC

VARIABLES Options, all_particles, pc, min_position_, max_position,
          index_factor_, number_of_cells_, cells_, neighbors, calls, next_call,
          number_of_particles, beta2_, beta4_, nuclear_orientation_, nucleus_call

\* the state of a Grid and of its traversal
grid_vars == <<Options, all_particles, pc, min_position_, max_position,
               index_factor_, number_of_cells_, cells_, neighbors, calls, next_call>>
\* the state of a DeformedNucleus and the latest call made on it
nucleus_vars == <<number_of_particles, beta2_, beta4_, nuclear_orientation_,
                  nucleus_call>>
vars == <<grid_vars, nucleus_vars>>

(***************************************************************************)
(* Bounds of the model.                                                    *)
(***************************************************************************)
\* largest particle count of an input list
MaxParticles == 27
\* particle counts of the input lists (1, 2, a cube of 2 and MaxParticles)
ParticleCounts == {1, 2, 8, MaxParticles}
\* coordinates (in tenths) a particle may have on each axis
PosX == {0, 40, 60, 75}
PosY == {0, 60}
PosZ == {0, 35}
Positions == {<<x, y, z>> : x \in PosX, y \in PosY, z \in PosZ}
\* positions of the particles after the second, which share one position
FillerPositions == {<<x, y, z>> : x \in {0, 60}, y \in PosY, z \in {0}}

(***************************************************************************)
(* Program constants.                                                      *)
(***************************************************************************)
\* mutant of max_interaction_length: cells of width 2.0
max_interaction_length_Short == 2 * 10

\* max_interaction_length = 2.5f on every axis, in tenths
max_interaction_length == 25
GridOptions == {"Normal", "PeriodicBoundaries"}
Axes == 1..3

(***************************************************************************)
(* Arithmetic helpers.                                                     *)
(***************************************************************************)
Min(a, b) == IF a <= b THEN a ELSE b
Max(a, b) == IF a >= b THEN a ELSE b
\* std::ceil(a / b) and std::floor(a / b) for a >= 0, b > 0
Ceil(a, b) == (a + b - 1) \div b
Floor(a, b) == a \div b
\* (int) std::cbrt(n): the conversion to int truncates
Cbrt(n) == CHOOSE k \in 0..n : k * k * k <= n /\ n < (k + 1) * (k + 1) * (k + 1)

RECURSIVE SeqMin(_, _), SeqMax(_, _)
SeqMin(s, i) == IF Len(s) = 1 THEN s[1].position[i]
                ELSE Min(s[1].position[i], SeqMin(Tail(s), i))
SeqMax(s, i) == IF Len(s) = 1 THEN s[1].position[i]
                ELSE Max(s[1].position[i], SeqMax(Tail(s), i))

\* find_min_max_positions: component-wise minimum and maximum of the positions
find_min_max_positions(ps) ==
  [first  |-> [i \in Axes |-> SeqMin(ps, i)],
   second |-> [i \in Axes |-> SeqMax(ps, i)]]

(***************************************************************************)
(* Cell count resolution (constructor, first loop).                        *)
(***************************************************************************)
max_cells == Cbrt(Len(all_particles))

\* ceil((max - min) * (1 / max_interaction_length)), at least 1
NaiveCount(lo, hi) == Max(1, Ceil(hi - lo, max_interaction_length))

\* mutant of ResolvedCount: the naive count is never capped
ResolvedCount_Uncapped(lo, hi) == NaiveCount(lo, hi)

ResolvedCount(lo, hi) ==
  IF NaiveCount(lo, hi) > max_cells THEN max_cells ELSE NaiveCount(lo, hi)

\* mutant of ResolvedFactor: a capped axis is rescaled without the margin 0.1
ResolvedFactor_NoMargin(lo, hi) ==
  IF NaiveCount(lo, hi) > max_cells
  THEN [num |-> max_cells, den |-> hi - lo]
  ELSE [num |-> 1, den |-> max_interaction_length]

\* index_factor_[i] as a fraction: 1 / max_interaction_length, or, when the
\* axis is capped, (max_cells - 0.1) / (max - min)
ResolvedFactor(lo, hi) ==
  IF NaiveCount(lo, hi) > max_cells
  THEN [num |-> 10 * max_cells - 1, den |-> 10 * (hi - lo)]
  ELSE [num |-> 1, den |-> max_interaction_length]

(***************************************************************************)
(* Index computations.                                                     *)
(***************************************************************************)
\* make_index(x, y, z)
make_index(x, y, z) ==
  (z * number_of_cells_[2] + y) * number_of_cells_[1] + x

\* std::floor((position[i] - min_position_[i]) * index_factor_[i])
CellCoord(position, i) ==
  Floor((position[i] - min_position_[i]) * index_factor_[i].num,
        index_factor_[i].den)

\* Grid<Normal>::make_index(position)
make_index_Normal(position) ==
  make_index(CellCoord(position, 1), CellCoord(position, 2),
             CellCoord(position, 3))

\* Grid<PeriodicBoundaries>::make_index(position)
make_index_Periodic(position) ==
  make_index(1 + CellCoord(position, 1), 1 + CellCoord(position, 2),
             CellCoord(position, 3))

\* Grid<PeriodicBoundaries>::is_ghost_cell
is_ghost_cell(x, y, z) ==
  \/ z + 1 = number_of_cells_[3]
  \/ y = 0
  \/ y + 1 = number_of_cells_[2]
  \/ x = 0
  \/ x + 1 = number_of_cells_[1]

CellsSize == number_of_cells_[1] * number_of_cells_[2] * number_of_cells_[3]
CellIndices == 0..(CellsSize - 1)
\* the coordinates of a linear index
XOf(idx) == idx % number_of_cells_[1]
YOf(idx) == (idx \div number_of_cells_[1]) % number_of_cells_[2]
ZOf(idx) == idx \div (number_of_cells_[1] * number_of_cells_[2])

(***************************************************************************)
(* Initial state: a non-empty particle list handed to Grid(all_particles). *)
(* The first two particles have free positions, the remaining ones share a *)
(* third position.                                                         *)
(***************************************************************************)
Zero3 == [i \in Axes |-> 0]

\* a DeformedNucleus of mass number A after DeformedNucleus(): no setter has
\* run and no call was made
NoCall == [op |-> "none", l |-> 0, cosx |-> 0, outcome |-> "none", value |-> 0]
Unset == [set |-> FALSE, value |-> 0]
NucleusConstructed(A) ==
  /\ number_of_particles = A
  /\ beta2_ = Unset
  /\ beta4_ = Unset
  /\ nuclear_orientation_ = Unset
  /\ nucleus_call = NoCall

Init ==
  /\ Options \in GridOptions
  /\ \E n \in ParticleCounts : \E a \in Positions, b \in Positions, c \in FillerPositions :
       all_particles =
         [i \in 1..n |-> [id |-> i,
                          position |-> IF i = 1 THEN a ELSE IF i = 2 THEN b ELSE c]]
  /\ pc = "start"
  /\ min_position_ = Zero3
  /\ max_position = Zero3
  /\ index_factor_ = [i \in Axes |-> [num |-> 0, den |-> 1]]
  /\ number_of_cells_ = Zero3
  /\ cells_ = << >>
  /\ neighbors = << >>
  /\ calls = << >>
  /\ next_call = 0
  /\ NucleusConstructed(208)

(***************************************************************************)
(* Constructor.                                                            *)
(***************************************************************************)
\* Grid(all_particles): bounding box, then the cell count resolution loop
ResolveGeometry ==
  /\ pc = "start"
  /\ LET mm == find_min_max_positions(all_particles) IN
       /\ min_position_' = mm.first
       /\ max_position' = mm.second
       /\ number_of_cells_' = [i \in Axes |-> ResolvedCount(mm.first[i], mm.second[i])]
       /\ index_factor_' = [i \in Axes |-> ResolvedFactor(mm.first[i], mm.second[i])]
  /\ pc' = "resolved"
  /\ UNCHANGED <<Options, all_particles, cells_, neighbors, calls, next_call>>
  /\ UNCHANGED nucleus_vars

\* number_of_cells_[0] += 2; [1] += 2; [2] += 1; cells_.resize(...)
AddGhostLayers ==
  /\ pc = "resolved"
  /\ Options = "PeriodicBoundaries"
  /\ number_of_cells_' = [number_of_cells_ EXCEPT ![1] = @ + 2, ![2] = @ + 2, ![3] = @ + 1]
  /\ cells_' = [idx \in 0..((number_of_cells_[1] + 2) * (number_of_cells_[2] + 2)
                              * (number_of_cells_[3] + 1) - 1) |-> << >>]
  /\ pc' = "allocated"
  /\ UNCHANGED <<Options, all_particles, min_position_, max_position, index_factor_,
                 neighbors, calls, next_call>>
  /\ UNCHANGED nucleus_vars

\* the debug-build test of the periodic bucketing loop (#ifndef NDEBUG)
PeriodicOutOfBounds(idx) ==
  \/ idx < make_index(1, 1, 0)
  \/ idx >= make_index(number_of_cells_[1] - 1, number_of_cells_[2] - 1,
                       number_of_cells_[3] - 1)
  \/ idx >= CellsSize

\* the debug-build test of the normal bucketing loop (#ifndef NDEBUG)
NormalOutOfBounds(idx) == idx >= CellsSize

\* make_index(position) of the template specialization in use
make_index_position(position) ==
  IF Options = "PeriodicBoundaries" THEN make_index_Periodic(position)
  ELSE make_index_Normal(position)

\* the debug-build test of the bucketing loop of the branch in use
OutOfBounds(idx) ==
  IF Options = "PeriodicBoundaries" THEN PeriodicOutOfBounds(idx)
  ELSE NormalOutOfBounds(idx)

\* cells_[make_index(p.position)].push_back(p) for every p, in list order
Bucketed ==
  [idx \in CellIndices |->
     SelectSeq(all_particles, LAMBDA p : make_index_position(p.position) = idx)]

\* The outcome of a bucketing loop.  A debug build throws at the first particle
\* that fails its test; a build with NDEBUG has no test, and a push_back
\* outside the cell array is undefined behaviour.
BucketOutcome(next_pc) ==
  \E ndebug \in BOOLEAN :
    IF ~ndebug /\ \E k \in 1..Len(all_particles) :
                    OutOfBounds(make_index_position(all_particles[k].position))
    THEN pc' = "failed" /\ UNCHANGED cells_
    ELSE IF \E k \in 1..Len(all_particles) :
              make_index_position(all_particles[k].position) \notin CellIndices
         THEN pc' = "undefined" /\ UNCHANGED cells_
         ELSE pc' = next_pc /\ cells_' = Bucketed

\* periodic branch: first fill the non-ghost cells
FillNonGhostCells ==
  /\ pc = "allocated"
  /\ Options = "PeriodicBoundaries"
  /\ BucketOutcome("filled")
  /\ UNCHANGED <<Options, all_particles, min_position_, max_position, index_factor_,
                 number_of_cells_, neighbors, calls, next_call>>
  /\ UNCHANGED nucleus_vars

\* length[i] = max_position[i] - min_position_[i]
length(i) == max_position[i] - min_position_[i]

\* mutant of copy_idx: the ghost column x = 0 mirrors the last column
copy_idx_LastColumn(x, y, z) ==
  make_index(x, y, z)
  + (IF x = 0 THEN number_of_cells_[1] - 1
     ELSE IF x = number_of_cells_[1] - 1 THEN -(number_of_cells_[1] - 2) ELSE 0)
  + (IF y = 0 THEN (number_of_cells_[2] - 2) * number_of_cells_[1]
     ELSE IF y = number_of_cells_[2] - 1
          THEN -((number_of_cells_[2] - 2) * number_of_cells_[1]) ELSE 0)
  + (IF z = number_of_cells_[3] - 1
     THEN -((number_of_cells_[3] - 1) * (number_of_cells_[1] * number_of_cells_[2]))
     ELSE 0)

\* copy_idx of the ghost cell (x, y, z)
copy_idx(x, y, z) ==
  make_index(x, y, z)
  + (IF x = 0 THEN number_of_cells_[1] - 2
     ELSE IF x = number_of_cells_[1] - 1 THEN -(number_of_cells_[1] - 2) ELSE 0)
  + (IF y = 0 THEN (number_of_cells_[2] - 2) * number_of_cells_[1]
     ELSE IF y = number_of_cells_[2] - 1
          THEN -((number_of_cells_[2] - 2) * number_of_cells_[1]) ELSE 0)
  + (IF z = number_of_cells_[3] - 1
     THEN -((number_of_cells_[3] - 1) * (number_of_cells_[1] * number_of_cells_[2]))
     ELSE 0)

\* mutant of position_shift: the x shift of the two ghost layers is swapped
position_shift_Swapped(x, y, z) ==
  <<IF x = 0 THEN length(1)
    ELSE IF x = number_of_cells_[1] - 1 THEN -length(1) ELSE 0,
    IF y = 0 THEN -length(2)
    ELSE IF y = number_of_cells_[2] - 1 THEN length(2) ELSE 0,
    IF z = number_of_cells_[3] - 1 THEN length(3) ELSE 0>>

\* position_shift of the ghost cell (x, y, z)
position_shift(x, y, z) ==
  <<IF x = 0 THEN -length(1)
    ELSE IF x = number_of_cells_[1] - 1 THEN length(1) ELSE 0,
    IF y = 0 THEN -length(2)
    ELSE IF y = number_of_cells_[2] - 1 THEN length(2) ELSE 0,
    IF z = number_of_cells_[3] - 1 THEN length(3) ELSE 0>>

\* cell = cells_[copy_idx]; p.set_4position(p.position() + position_shift)
GhostCopy(cell, shift) ==
  [k \in 1..Len(cell) |->
     [cell[k] EXCEPT !.position = [i \in Axes |-> cell[k].position[i] + shift[i]]]]

\* The z, y, x loops of the ghost filling visit the cells in increasing linear
\* index and overwrite every ghost cell in turn.  CellBefore is the content of
\* the cell src just before the loops reach the cell of index step: what the
\* loops have written to it if it is a ghost cell they have passed, and its
\* content in cells otherwise.
RECURSIVE CellBefore(_, _, _)
CellBefore(cells, src, step) ==
  IF src < step /\ is_ghost_cell(XOf(src), YOf(src), ZOf(src))
  THEN GhostCopy(CellBefore(cells, copy_idx(XOf(src), YOf(src), ZOf(src)), src),
                 position_shift(XOf(src), YOf(src), ZOf(src)))
  ELSE cells[src]

\* the cell array after the ghost filling loops have run over cells
FillGhosts(cells) == [idx \in CellIndices |-> CellBefore(cells, idx, CellsSize)]

\* periodic branch: now fill the ghost cells
FillGhostCells ==
  /\ pc = "filled"
  /\ cells_' = FillGhosts(cells_)
  /\ pc' = "constructed"
  /\ UNCHANGED <<Options, all_particles, min_position_, max_position, index_factor_,
                 number_of_cells_, neighbors, calls, next_call>>
  /\ UNCHANGED nucleus_vars

\* mutant of IsDilute: only a grid of one cell per axis is dilute
IsDilute_OneCell == \A i \in Axes : number_of_cells_[i] < 2

\* all_of(number_of_cells_, n <= 2)
IsDilute == \A i \in Axes : number_of_cells_[i] <= 2

\* mutant of DiluteFallback: the particle list is moved into the cell and the
\* list of the caller is left empty
DiluteFallback_Moved ==
  /\ pc = "resolved"
  /\ Options = "Normal"
  /\ IsDilute
  /\ number_of_cells_' = [i \in Axes |-> 1]
  /\ cells_' = [idx \in {0} |-> all_particles]
  /\ all_particles' = << >>
  /\ pc' = "constructed"
  /\ UNCHANGED <<Options, min_position_, max_position, index_factor_,
                 neighbors, calls, next_call>>
  /\ UNCHANGED nucleus_vars

\* dilute limit: a single cell holding a copy of the whole particle list (the
\* list is passed as an lvalue, so std::forward<T> copies it)
DiluteFallback ==
  /\ pc = "resolved"
  /\ Options = "Normal"
  /\ IsDilute
  /\ number_of_cells_' = [i \in Axes |-> 1]
  /\ cells_' = [idx \in {0} |-> all_particles]
  /\ pc' = "constructed"
  /\ UNCHANGED <<Options, all_particles, min_position_, max_position, index_factor_,
                 neighbors, calls, next_call>>
  /\ UNCHANGED nucleus_vars

\* normal grid: resize the cell array and bucket every particle
FillNormalCells ==
  /\ pc = "resolved"
  /\ Options = "Normal"
  /\ ~IsDilute
  /\ BucketOutcome("constructed")
  /\ UNCHANGED <<Options, all_particles, min_position_, max_position, index_factor_,
                 number_of_cells_, neighbors, calls, next_call>>
  /\ UNCHANGED nucleus_vars

(***************************************************************************)
(* iterate_cells.                                                          *)
(***************************************************************************)
RECURSIVE Flatten(_)
Flatten(ss) == IF Len(ss) = 0 THEN << >> ELSE Head(ss) \o Flatten(Tail(ss))

\* the arguments of one call of call_closure
ClosureArgs(cell_index, xoffsets, yoffsets, zoffsets) ==
  [cell_index |-> cell_index, xoffsets |-> xoffsets,
   yoffsets |-> yoffsets, zoffsets |-> zoffsets]

\* mutant of build_neighbors_with_zy: the full x stencil also at the row ends
build_neighbors_with_zy_NoEdge(y, z, yoffsets, zoffsets) ==
  [xx \in 1..number_of_cells_[1] |->
     ClosureArgs(make_index(xx - 1, y, z), <<-1, 0, 1>>, yoffsets, zoffsets)]

\* build_neighbors_with_zy: the calls of call_closure for the row (y, z)
build_neighbors_with_zy(y, z, yoffsets, zoffsets) ==
  IF number_of_cells_[1] > 1
  THEN <<ClosureArgs(make_index(0, y, z), <<0, 1>>, yoffsets, zoffsets)>>
       \o [x \in 1..(number_of_cells_[1] - 2) |->
             ClosureArgs(make_index(x, y, z), <<-1, 0, 1>>, yoffsets, zoffsets)]
       \o <<ClosureArgs(make_index(number_of_cells_[1] - 1, y, z), <<-1, 0>>,
                        yoffsets, zoffsets)>>
  ELSE <<ClosureArgs(make_index(0, y, z), <<0>>, yoffsets, zoffsets)>>

\* build_neighbors_with_z: the calls of call_closure for the layer z
build_neighbors_with_z(z, zoffsets) ==
  IF number_of_cells_[2] > 1
  THEN build_neighbors_with_zy(0, z, <<0, 1>>, zoffsets)
       \o Flatten([y \in 1..(number_of_cells_[2] - 2) |->
                     build_neighbors_with_zy(y, z, <<-1, 0, 1>>, zoffsets)])
       \o build_neighbors_with_zy(number_of_cells_[2] - 1, z, <<-1, 0>>, zoffsets)
  ELSE build_neighbors_with_zy(0, z, <<0>>, zoffsets)

\* open branch of iterate_cells: the calls of call_closure, in order
NormalCalls ==
  Flatten([z \in 1..(number_of_cells_[3] - 1) |->
             build_neighbors_with_z(z - 1, <<0, 1>>)])
  \o build_neighbors_with_z(number_of_cells_[3] - 1, <<0>>)

\* mutant of PeriodicCalls: the x loop starts in the ghost column
PeriodicCalls_FromGhostColumn ==
  LET max_x == number_of_cells_[1] - 1
      max_y == number_of_cells_[2] - 1
      max_z == number_of_cells_[3] - 1
  IN Flatten([zz \in 1..max_z |->
       Flatten([y \in 1..(max_y - 1) |->
         [xx \in 1..max_x |->
            ClosureArgs(make_index(xx - 1, y, zz - 1),
                        <<-1, 0, 1>>, <<-1, 0, 1>>, <<0, 1>>)]])])

\* periodic branch of iterate_cells: the inner cells in z, y, x order
PeriodicCalls ==
  LET max_x == number_of_cells_[1] - 1
      max_y == number_of_cells_[2] - 1
      max_z == number_of_cells_[3] - 1
  IN Flatten([zz \in 1..max_z |->
       Flatten([y \in 1..(max_y - 1) |->
         [x \in 1..(max_x - 1) |->
            ClosureArgs(make_index(x, y, zz - 1),
                        <<-1, 0, 1>>, <<-1, 0, 1>>, <<0, 1>>)]])])

\* the sequence of call_closure calls one run of iterate_cells makes
ClosureCalls == IF Options = "PeriodicBoundaries" THEN PeriodicCalls ELSE NormalCalls

\* the indices cell_index_dzdydx in the order of the dz, dy, dx loops
OffsetIndices(a) ==
  LET nx == Len(a.xoffsets)
      ny == Len(a.yoffsets)
      nz == Len(a.zoffsets)
  IN [n \in 1..(nx * ny * nz) |->
        a.cell_index
        + a.zoffsets[((n - 1) \div (nx * ny)) + 1] * number_of_cells_[2] * number_of_cells_[1]
        + a.yoffsets[(((n - 1) \div nx) % ny) + 1] * number_of_cells_[1]
        + a.xoffsets[((n - 1) % nx) + 1]]

\* mutant of IsForward: every other cell of the stencil is admitted
IsForward_AnyOther(cell_index_dzdydx, cell_index) == cell_index_dzdydx /= cell_index

\* the test that admits cell_index_dzdydx to the neighbor list
IsForward(cell_index_dzdydx, cell_index) == cell_index_dzdydx > cell_index

\* mutant of call_closure: the buffer is not cleared
call_closure_NoClear(buffer, a) ==
  buffer \o SelectSeq(OffsetIndices(a), LAMBDA j : IsForward(j, a.cell_index))

\* call_closure: neighbors.clear(), then emplace_back of every admitted index
call_closure(buffer, a) ==
  LET cleared == << >>
  IN cleared \o SelectSeq(OffsetIndices(a), LAMBDA j : IsForward(j, a.cell_index))

\* neighbors.reserve(13): the capacity reserved for one neighbor list
reserved_neighbors == 13

\* iterate_cells is entered on a constructed grid, any number of times
IterateCells ==
  /\ pc \in {"constructed", "done"}
  /\ pc' = "iterating"
  /\ neighbors' = << >>
  /\ calls' = << >>
  /\ next_call' = 1
  /\ UNCHANGED <<Options, all_particles, min_position_, max_position, index_factor_,
                 number_of_cells_, cells_>>
  /\ UNCHANGED nucleus_vars

\* one call of call_closure, ending in call_finder(cells_[cell_index], neighbors)
CallClosure ==
  /\ pc = "iterating"
  /\ next_call <= Len(ClosureCalls)
  /\ LET a == ClosureCalls[next_call] IN
       /\ neighbors' = call_closure(neighbors, a)
       /\ calls' = Append(calls, [home |-> a.cell_index,
                                  neighbors |-> call_closure(neighbors, a)])
  /\ next_call' = next_call + 1
  /\ UNCHANGED <<Options, all_particles, pc, min_position_, max_position,
                 index_factor_, number_of_cells_, cells_>>
  /\ UNCHANGED nucleus_vars

\* iterate_cells returns after the last call
IterateReturn ==
  /\ pc = "iterating"
  /\ next_call > Len(ClosureCalls)
  /\ pc' = "done"
  /\ UNCHANGED <<Options, all_particles, min_position_, max_position, index_factor_,
                 number_of_cells_, cells_, neighbors, calls, next_call>>
  /\ UNCHANGED nucleus_vars

Next ==
  \/ ResolveGeometry
  \/ AddGhostLayers
  \/ FillNonGhostCells
  \/ FillGhostCells
  \/ DiluteFallback
  \/ FillNormalCells
  \/ IterateCells
  \/ CallClosure
  \/ IterateReturn

Spec == Init /\ [][Next]_vars

(***************************************************************************)
(* Scenario inputs: particle lists with prescribed positions handed to     *)
(* Grid(all_particles) in either mode.                                     *)
(***************************************************************************)
\* the lattice spacings (2.5 and 3.0)
LatticeSpacings == {25, 30}
\* the 27 particles of a 3x3x3 lattice with spacing s, x running fastest
Lattice(s) ==
  [n \in 1..27 |->
     [id |-> n,
      position |-> <<((n - 1) % 3) * s, (((n - 1) \div 3) % 3) * s,
                     ((n - 1) \div 9) * s>>]]
\* two particles at (0,0,0) and (10,0,0)
TwoParticles ==
  <<[id |-> 1, position |-> <<0, 0, 0>>], [id |-> 2, position |-> <<100, 0, 0>>]>>
\* an x extent of 10 with a particle at x = 9.9: particle 1 at (9.9, y, 0),
\* particle 2 at the origin, all others at one point of the face x = 10
WrapCounts == {8, 27}
WrapFillers == {<<100, y, z>> : y \in PosY, z \in PosZ}
WrapList(n, y, c) ==
  [i \in 1..n |-> [id |-> i,
                   position |-> IF i = 1 THEN <<99, y, 0>>
                                ELSE IF i = 2 THEN <<0, 0, 0>> ELSE c]]
ScenarioInputs ==
  {Lattice(s) : s \in LatticeSpacings}
  \cup {TwoParticles}
  \cup {WrapList(n, yc[1], yc[2]) : n \in WrapCounts, yc \in PosY \X WrapFillers}

InitScenario ==
  /\ Options \in GridOptions
  /\ all_particles \in ScenarioInputs
  /\ pc = "start"
  /\ min_position_ = Zero3
  /\ max_position = Zero3
  /\ index_factor_ = [i \in Axes |-> [num |-> 0, den |-> 1]]
  /\ number_of_cells_ = Zero3
  /\ cells_ = << >>
  /\ neighbors = << >>
  /\ calls = << >>
  /\ next_call = 0
  /\ NucleusConstructed(208)

SpecScenario == InitScenario /\ [][Next]_vars

(***************************************************************************)
(* DeformedNucleus: set_parameters_automatic and y_l_0.                    *)
(* beta2_ and beta4_ count thousandths, cosx counts tenths.  The numeric   *)
(* prefactors of y_l_0 are irrational and kept as names; the polynomial in *)
(* cosx is computed exactly as a fraction.                                 *)
(***************************************************************************)
\* largest l handed to y_l_0
MaxL == 6
\* mass numbers of the nuclei, the listed four and others
MassNumbers == {1, 63, 64, 197, 207, 208, 238}
\* values of cosx and of the cosine of a random polar angle
CosValues == {-10, 0, 5, 10}

\* mutant of deformation: a mass number that is not listed gets beta2 = beta4 = 0
deformation_DefaultSpherical(A) ==
  CASE A = 238 -> [listed |-> TRUE, beta2 |-> 215, beta4 |-> 93]
    [] A = 208 -> [listed |-> TRUE, beta2 |-> 0, beta4 |-> 0]
    [] A = 197 -> [listed |-> TRUE, beta2 |-> -131, beta4 |-> -31]
    [] A = 63 -> [listed |-> TRUE, beta2 |-> 162, beta4 |-> -6]
    [] OTHER -> [listed |-> TRUE, beta2 |-> 0, beta4 |-> 0]

\* the switch of set_parameters_automatic: the deformation parameters of the
\* mass number A, or the default branch
deformation(A) ==
  CASE A = 238 -> [listed |-> TRUE, beta2 |-> 215, beta4 |-> 93]
    [] A = 208 -> [listed |-> TRUE, beta2 |-> 0, beta4 |-> 0]
    [] A = 197 -> [listed |-> TRUE, beta2 |-> -131, beta4 |-> -31]
    [] A = 63 -> [listed |-> TRUE, beta2 |-> 162, beta4 |-> -6]
    [] OTHER -> [listed |-> FALSE, beta2 |-> 0, beta4 |-> 0]

\* y_l_0(l, cosx): the value for l = 2 and l = 4, std::domain_error otherwise
y_l_0(l, cosx) ==
  IF l = 2
  THEN [outcome |-> "returned",
        value |-> [prefactor |-> "(1/4)*sqrt(5/pi)",
                   num |-> 3 * (cosx * cosx) - 100, den |-> 100]]
  ELSE IF l = 4
  THEN [outcome |-> "returned",
        value |-> [prefactor |-> "(3/16)*sqrt(1/pi)",
                   num |-> 35 * (cosx * cosx) * (cosx * cosx)
                           - 3000 * (cosx * cosx) + 30000,
                   den |-> 10000]]
  ELSE [outcome |-> "domain_error", value |-> 0]

InitNucleus ==
  /\ Options = "Normal"
  /\ all_particles = << >>
  /\ pc = "start"
  /\ min_position_ = Zero3
  /\ max_position = Zero3
  /\ index_factor_ = [i \in Axes |-> [num |-> 0, den |-> 1]]
  /\ number_of_cells_ = Zero3
  /\ cells_ = << >>
  /\ neighbors = << >>
  /\ calls = << >>
  /\ next_call = 0
  /\ \E A \in MassNumbers : NucleusConstructed(A)

\* DeformedNucleus::set_parameters_automatic; the orientation is random
set_parameters_automatic ==
  /\ nucleus_call.outcome /= "domain_error"
  /\ IF deformation(number_of_particles).listed
     THEN /\ beta2_' = [set |-> TRUE, value |-> deformation(number_of_particles).beta2]
          /\ beta4_' = [set |-> TRUE, value |-> deformation(number_of_particles).beta4]
          /\ \E c \in CosValues :
               nuclear_orientation_' = [set |-> TRUE, value |-> c]
          /\ nucleus_call' = [NoCall EXCEPT !.op = "set_parameters_automatic",
                                            !.outcome = "returned"]
     ELSE /\ nucleus_call' = [NoCall EXCEPT !.op = "set_parameters_automatic",
                                            !.outcome = "domain_error"]
          /\ UNCHANGED <<beta2_, beta4_, nuclear_orientation_>>
  /\ UNCHANGED <<number_of_particles, grid_vars>>

\* one call of the const member y_l_0
call_y_l_0 ==
  /\ nucleus_call.outcome /= "domain_error"
  /\ \E l \in 0..MaxL : \E cosx \in CosValues :
       nucleus_call' = [op |-> "y_l_0", l |-> l, cosx |-> cosx,
                        outcome |-> y_l_0(l, cosx).outcome,
                        value |-> y_l_0(l, cosx).value]
  /\ UNCHANGED <<number_of_particles, beta2_, beta4_, nuclear_orientation_, grid_vars>>

NextNucleus ==
  \/ set_parameters_automatic
  \/ call_y_l_0

SpecNucleus == InitNucleus /\ [][NextNucleus]_vars

(***************************************************************************)
(* What one traversal delivers.                                            *)
(***************************************************************************)
ParticleIds == 1..Len(all_particles)
IdsOf(cell) == {cell[k].id : k \in 1..Len(cell)}
Constructed == pc \in {"constructed", "iterating", "done"}
IsGhostIndex(idx) ==
  Options = "PeriodicBoundaries" /\ is_ghost_cell(XOf(idx), YOf(idx), ZOf(idx))
\* the ids in the home list and in the neighbor lists of one callback invocation
HomeIds(c) == IdsOf(cells_[c.home])
NeighborIds(c) == UNION {IdsOf(cells_[c.neighbors[k]]) : k \in 1..Len(c.neighbors)}
\* per invocation, the ids of its home list and of its neighbor lists
Delivered ==
  [k \in 1..Len(calls) |-> [home |-> HomeIds(calls[k]), nb |-> NeighborIds(calls[k])]]
\* the invocations of D that deliver the particles p and q together
Deliveries(D, p, q) ==
  {k \in DOMAIN D : \/ p \in D[k].home /\ q \in D[k].home
                    \/ p \in D[k].home /\ q \in D[k].nb
                    \/ q \in D[k].home /\ p \in D[k].nb}
\* per particle, the cells that are not ghost cells and hold it
Holding ==
  LET real == {idx \in CellIndices : ~IsGhostIndex(idx)}
  IN [p \in ParticleIds |-> {idx \in real : p \in IdsOf(cells_[idx])}]
Abs(n) == IF n < 0 THEN -n ELSE n
\* two cell indices whose coordinates differ by at most 1 on every axis
AdjacentCells(i, j) ==
  /\ Abs(XOf(i) - XOf(j)) <= 1
  /\ Abs(YOf(i) - YOf(j)) <= 1
  /\ Abs(ZOf(i) - ZOf(j)) <= 1

C2_NoDuplication ==
  pc \in {"iterating", "done"} =>
    LET D == Delivered IN
    \A p \in ParticleIds : \A q \in ParticleIds :
      p < q => Cardinality(Deliveries(D, p, q)) <= 1

(***************************************************************************)
(* C3.  Open-mode cell-pair enumeration.                                   *)
(***************************************************************************)
\* the (invocation, position) places where cell j is a neighbor of home cell i
NeighborPlaces(i, j) ==
  {km \in UNION {{<<k, m>> : m \in 1..Len(calls[k].neighbors)} : k \in 1..Len(calls)} :
     calls[km[1]].home = i /\ calls[km[1]].neighbors[km[2]] = j}

\* C3: in Normal mode one run of iterate_cells invokes the callback once with
\* each cell as home; every unordered pair of distinct adjacent cells appears
\* as (home, neighbor) exactly once, with the lower linear index as home; a
\* cell that is not adjacent to the home cell never appears in its neighbors.
C3_OpenCellPairs ==
  (pc = "done" /\ Options = "Normal") =>
    /\ Len(calls) = number_of_cells_[1] * number_of_cells_[2] * number_of_cells_[3]
    /\ \A i \in CellIndices : Cardinality({k \in 1..Len(calls) : calls[k].home = i}) = 1
    /\ \A k \in 1..Len(calls) : \A m \in 1..Len(calls[k].neighbors) :
         /\ calls[k].neighbors[m] \in CellIndices
         /\ calls[k].neighbors[m] /= calls[k].home
         /\ AdjacentCells(calls[k].home, calls[k].neighbors[m])
    /\ \A i \in CellIndices : \A j \in CellIndices :
         (i < j /\ AdjacentCells(i, j)) =>
           /\ Cardinality(NeighborPlaces(i, j)) = 1
           /\ NeighborPlaces(j, i) = {}

\* C3 witness: a finished traversal of a Normal grid with inner, edge and
\* corner cells on a 3 x 3 x 2 shape.
C3_Witness ==
  /\ pc = "done"
  /\ Options = "Normal"
  /\ number_of_cells_ = <<3, 3, 2>>
  /\ Len(calls) = 18

(***************************************************************************)
(* C4.  Open-mode interaction coverage.                                    *)
(***************************************************************************)
PositionOf(p) == all_particles[p].position
WithinInteractionLength(u, v) ==
  \A i \in Axes : Abs(u[i] - v[i]) <= max_interaction_length

\* C4: in Normal mode, with the bounding box computed from the particles, two
\* distinct particles whose positions differ by at most the interaction length
\* on every axis are delivered together in at least one callback invocation.
C4_OpenInteractionCoverage ==
  (pc = "done" /\ Options = "Normal") =>
    LET D == Delivered IN
    \A p \in ParticleIds : \A q \in ParticleIds :
      (p < q /\ WithinInteractionLength(PositionOf(p), PositionOf(q)))
        => Deliveries(D, p, q) /= {}

(***************************************************************************)
(* C5.  Periodic image coverage.                                           *)
(***************************************************************************)
RangeOf(cell) == {cell[k] : k \in 1..Len(cell)}
\* per invocation, the particle copies of its home list and of all its lists
DeliveredCopies ==
  [k \in 1..Len(calls) |->
     [home |-> RangeOf(cells_[calls[k].home]),
      all  |-> RangeOf(cells_[calls[k].home])
               \cup UNION {RangeOf(cells_[calls[k].neighbors[m]]) :
                             m \in 1..Len(calls[k].neighbors)}]]
\* separation to the nearest periodic image, period = extent of the bounding box
NearestImageWithin(u, v) ==
  \A i \in Axes :
    Min(Abs(u[i] - v[i]), length(i) - Abs(u[i] - v[i])) <= max_interaction_length

\* C5: in PeriodicBoundaries mode two particles whose separation to the nearest
\* periodic image is at most the interaction length on every axis are
\* delivered together in some invocation, one in the home list and the other
\* as the original or the ghost copy that lies within the interaction length
\* of it.  (Stated for particles that the grid holds in a non-ghost cell.)
C5_PeriodicImageCoverage ==
  (pc = "done" /\ Options = "PeriodicBoundaries") =>
    LET C == DeliveredCopies
        H == Holding
    IN \A p \in ParticleIds : \A q \in ParticleIds :
         (/\ p < q
          /\ H[p] /= {}
          /\ H[q] /= {}
          /\ NearestImageWithin(PositionOf(p), PositionOf(q)))
           => \E k \in DOMAIN C : \E u \in C[k].home : \E v \in C[k].all :
                /\ {u.id, v.id} = {p, q}
                /\ WithinInteractionLength(u.position, v.position)

(***************************************************************************)
(* C6.  Bucket correctness, open mode.                                     *)
(***************************************************************************)
\* the places (cell, position in its list) where particle p is stored
Occurrences(p) ==
  {ck \in UNION {{<<idx, k>> : k \in 1..Len(cells_[idx])} : idx \in CellIndices} :
     cells_[ck[1]][ck[2]].id = p}
CoordOf(idx, i) == IF i = 1 THEN XOf(idx) ELSE IF i = 2 THEN YOf(idx) ELSE ZOf(idx)
\* the spatial bounds of cell coordinate c on axis i contain the coordinate v
\* (the last cell of an axis includes the maximum of the bounding box)
CellBoundsContain(c, i, v) ==
  /\ c * index_factor_[i].den <= (v - min_position_[i]) * index_factor_[i].num
  /\ \/ (v - min_position_[i]) * index_factor_[i].num < (c + 1) * index_factor_[i].den
     \/ v = max_position[i] /\ c = number_of_cells_[i] - 1

\* C6: after a successful construction of a multi-cell Normal grid every input
\* particle is stored in exactly one cell, whose coordinate on each axis lies
\* in [0, cell_count - 1] and whose spatial bounds contain the particle.
C6_OpenBucketCorrect ==
  (Constructed /\ Options = "Normal" /\ CellsSize > 1) =>
    \A p \in ParticleIds :
      /\ Cardinality(Occurrences(p)) = 1
      /\ \A ck \in Occurrences(p) : \A i \in Axes :
           /\ CoordOf(ck[1], i) \in 0..(number_of_cells_[i] - 1)
           /\ CellBoundsContain(CoordOf(ck[1], i), i, PositionOf(p)[i])
           /\ cells_[ck[1]][ck[2]].position = PositionOf(p)

(***************************************************************************)
(* C7.  Bucket correctness, periodic mode.                                 *)
(***************************************************************************)
\* C7: in PeriodicBoundaries mode, after bucketing and after ghost filling,
\* every input particle is present with its original position in exactly one
\* non-ghost cell; no input particle is bucketed into a ghost cell and none is
\* lost when the ghost cells are overwritten.
C7_PeriodicBucketCorrect ==
  (Options = "PeriodicBoundaries" /\ (pc = "filled" \/ Constructed)) =>
    \A p \in ParticleIds :
      /\ Cardinality({ck \in Occurrences(p) : ~IsGhostIndex(ck[1])}) = 1
      /\ \A ck \in Occurrences(p) :
           /\ ~IsGhostIndex(ck[1]) => cells_[ck[1]][ck[2]].position = PositionOf(p)
           /\ pc = "filled" => ~IsGhostIndex(ck[1])

(***************************************************************************)
(* C8.  Ghost consistency.                                                 *)
(***************************************************************************)
\* the cell on the opposite side of the interior: index 0 of x or y mirrors the
\* last interior index, the last index of x or y mirrors index 1, the last z
\* index mirrors z = 0
MirrorCell(idx) ==
  LET x == XOf(idx)
      y == YOf(idx)
      z == ZOf(idx)
      mx == IF x = 0 THEN number_of_cells_[1] - 2
            ELSE IF x = number_of_cells_[1] - 1 THEN 1 ELSE x
      my == IF y = 0 THEN number_of_cells_[2] - 2
            ELSE IF y = number_of_cells_[2] - 1 THEN 1 ELSE y
      mz == IF z = number_of_cells_[3] - 1 THEN 0 ELSE z
  IN (mz * number_of_cells_[2] + my) * number_of_cells_[1] + mx
Extent(i) == max_position[i] - min_position_[i]
\* the shift as C8 words it: on every axis, -extent at index 0, +extent at the
\* last index, 0 elsewhere
ShiftAsStated(idx) ==
  [i \in Axes |-> IF CoordOf(idx, i) = 0 THEN -Extent(i)
                  ELSE IF CoordOf(idx, i) = number_of_cells_[i] - 1 THEN Extent(i)
                  ELSE 0]
\* the same, but z = 0 is not a ghost layer and carries no shift
ShiftOfGhostLayers(idx) ==
  [i \in Axes |-> IF CoordOf(idx, i) = 0 /\ i /= 3 THEN -Extent(i)
                  ELSE IF CoordOf(idx, i) = number_of_cells_[i] - 1 THEN Extent(i)
                  ELSE 0]
\* the particles of a cell with a shift subtracted from their positions
Unshifted(cell, shift) ==
  {[id |-> cell[k].id, position |-> [i \in Axes |-> cell[k].position[i] - shift[i]]] :
     k \in 1..Len(cell)}
GhostMatchesMirror(idx, shift) ==
  /\ Len(cells_[idx]) = Len(cells_[MirrorCell(idx)])
  /\ Unshifted(cells_[idx], shift) = RangeOf(cells_[MirrorCell(idx)])

\* C8 as stated: every ghost cell's list, with the shift subtracted (-extent on
\* an axis where the ghost is at index 0, +extent where it is at the last
\* index, 0 otherwise), has the content of its mirror cell's list.
C8_GhostConsistencyAsStated ==
  (Options = "PeriodicBoundaries" /\ Constructed) =>
    \A idx \in CellIndices :
      IsGhostIndex(idx) => GhostMatchesMirror(idx, ShiftAsStated(idx))

\* C8 as amended: every ghost cell's list, with the shift subtracted, has the
\* content of its mirror cell's list, where the shift is -extent on the x or y
\* axis where the ghost is at index 0, +extent on an axis (x, y or z) where it
\* is at the last index, and 0 otherwise; index 0 of z carries no shift.
C8_GhostConsistency ==
  (Options = "PeriodicBoundaries" /\ Constructed) =>
    \A idx \in CellIndices :
      IsGhostIndex(idx) => GhostMatchesMirror(idx, ShiftOfGhostLayers(idx))

\* C8 witness: a constructed periodic grid with positive extent on x and z in
\* which a ghost cell at x index 0 and a ghost cell of the last z layer hold
\* shifted copies.
C8_Witness ==
  /\ Options = "PeriodicBoundaries"
  /\ pc = "constructed"
  /\ Extent(1) > 0
  /\ Extent(3) > 0
  /\ \E idx \in CellIndices :
       XOf(idx) = 0 /\ ZOf(idx) = 0 /\ Len(cells_[idx]) > 0
  /\ \E idx \in CellIndices :
       ZOf(idx) = number_of_cells_[3] - 1 /\ Len(cells_[idx]) > 0

(***************************************************************************)
(* C9.  Dilute fallback trigger.                                           *)
(***************************************************************************)
\* the cell count the resolution loop gives axis i for the bounding box
CountOfBox(i) == ResolvedCount(min_position_[i], max_position[i])

\* C9: in Normal mode, whenever the resolved cell count is <= 2 on every axis,
\* construction succeeds with cell counts {1,1,1} and one cell that holds all
\* input particles, and iterate_cells makes exactly one callback invocation,
\* with the full particle list as home list and an empty neighbor list.
C9_DiluteFallback ==
  (/\ Options = "Normal"
   /\ pc \notin {"start", "resolved"}
   /\ \A i \in Axes : CountOfBox(i) <= 2) =>
    /\ Constructed
    /\ number_of_cells_ = <<1, 1, 1>>
    /\ DOMAIN cells_ = {0}
    /\ cells_[0] = all_particles
    /\ pc = "done" => calls = <<[home |-> 0, neighbors |-> << >>]>>
    /\ pc = "iterating" => Len(calls) <= 1

\* C9 witness: a finished traversal of a grid that resolved to two cells on
\* some axis and fell back to the single cell.
C9_Witness ==
  /\ Options = "Normal"
  /\ pc = "done"
  /\ \E i \in Axes : CountOfBox(i) = 2
  /\ \A i \in Axes : CountOfBox(i) <= 2
  /\ Len(calls) = 1

(***************************************************************************)
(* C10.  Cap invariant.                                                    *)
(***************************************************************************)
\* the cell count of axis i without the ghost layers of periodic mode
InteriorCount(i) ==
  IF Options = "PeriodicBoundaries" /\ pc /= "resolved"
  THEN number_of_cells_[i] - (IF i = 3 THEN 1 ELSE 2)
  ELSE number_of_cells_[i]
\* ceil(extent / 2.5): the least n with n * 2.5 >= extent
CeilOfExtent(i) ==
  CHOOSE n \in 0..Extent(i) : n * max_interaction_length >= Extent(i)
                              /\ (n - 1) * max_interaction_length < Extent(i)
Cube(n) == n * n * n

\* C10: the resolved cell count of every axis (without ghost layers) is at
\* least 1 and at most floor(cbrt(N)); when ceil(extent / 2.5) exceeds
\* floor(cbrt(N)) it equals floor(cbrt(N)).  (The count is read after the
\* resolution loop; the dilute branch later resets it to 1.)
C10_CapInvariant ==
  pc /= "start" =>
    \A i \in Axes :
      /\ InteriorCount(i) >= 1
      /\ Cube(InteriorCount(i)) <= Len(all_particles)
      /\ (/\ Cube(CeilOfExtent(i)) > Len(all_particles)
          /\ ~(Options = "Normal" /\ Constructed /\ CellsSize = 1))
           => Cube(InteriorCount(i) + 1) > Len(all_particles)

\* C10 witness: the resolution loop has capped an axis whose naive count
\* exceeds floor(cbrt(N)) >= 2.
C10_Witness ==
  /\ pc = "resolved"
  /\ \E i \in Axes :
       /\ Cube(CeilOfExtent(i)) > Len(all_particles)
       /\ number_of_cells_[i] >= 2
       /\ index_factor_[i].num > 1

(***************************************************************************)
(* C11.  Ghost cells are never home cells.                                 *)
(***************************************************************************)
\* the cell of linear index idx is a ghost cell as the claim states it: x or y
\* at index 0 or at the last index, or z at the last index
StatedGhost(idx) ==
  \/ XOf(idx) \in {0, number_of_cells_[1] - 1}
  \/ YOf(idx) \in {0, number_of_cells_[2] - 1}
  \/ ZOf(idx) = number_of_cells_[3] - 1
\* the home cells of the invocations made so far
Homes == {calls[k].home : k \in 1..Len(calls)}

\* C11: in PeriodicBoundaries mode is_ghost_cell holds of exactly the cells
\* with x or y at index 0 or at the last index or z at the last index (a cell
\* of the layer z = 0 with inner x and y is not a ghost cell); no invocation
\* has a ghost cell as home and no cell is home twice; after the traversal
\* the home cells are exactly the cells that are not ghost cells.
C11_GhostCellsNeverHome ==
  (Options = "PeriodicBoundaries" /\ pc \in {"constructed", "iterating", "done"}) =>
    /\ \A idx \in CellIndices :
         is_ghost_cell(XOf(idx), YOf(idx), ZOf(idx)) <=> StatedGhost(idx)
    /\ ~StatedGhost(make_index(1, 1, 0))
    /\ \A k \in 1..Len(calls) :
         /\ calls[k].home \in CellIndices
         /\ ~StatedGhost(calls[k].home)
         /\ \A m \in 1..(k - 1) : calls[m].home /= calls[k].home
    /\ pc = "done" => Homes = {idx \in CellIndices : ~StatedGhost(idx)}

\* C11 witness: a finished periodic traversal with several home cells in
\* which a ghost cell was handed over in a neighbor list.
C11_Witness ==
  /\ Options = "PeriodicBoundaries"
  /\ pc = "done"
  /\ Len(calls) >= 2
  /\ \E k \in 1..Len(calls) : \E m \in 1..Len(calls[k].neighbors) :
       StatedGhost(calls[k].neighbors[m])

(***************************************************************************)
(* C12.  A position that maps outside the particle cells is fatal in a     *)
(*       debug build.                                                      *)
(***************************************************************************)
\* the bucketing loop of the branch in use is about to run
AboutToBucket ==
  \/ Options = "PeriodicBoundaries" /\ pc = "allocated"
  \/ Options = "Normal" /\ pc = "resolved" /\ ~IsDilute
\* the cell coordinate of the position on axis i, ghost layers counted
GridCoord(position, i) ==
  IF Options = "PeriodicBoundaries" /\ i /= 3 THEN 1 + CellCoord(position, i)
  ELSE CellCoord(position, i)
\* the coordinates on axis i of the cells allocated for particles
ParticleCellCoords(i) ==
  IF Options = "PeriodicBoundaries"
  THEN IF i = 3 THEN 0..(number_of_cells_[3] - 2) ELSE 1..(number_of_cells_[i] - 2)
  ELSE 0..(number_of_cells_[i] - 1)
\* the position maps outside the cells allocated for particles
MapsOutside(position) ==
  \/ \E i \in Axes : GridCoord(position, i) \notin ParticleCellCoords(i)
  \/ make_index_position(position) \notin CellIndices

\* C12: when the bucketing loop of either mode is about to run and some
\* particle's position maps outside the cells allocated for particles (a
\* per-axis coordinate outside its valid range, or a linear index outside the
\* cell array), the test of the debug build fires for some particle, so that
\* the debug build ends construction with the out-of-bounds error.
C12_OutOfRangeIsFatal ==
  AboutToBucket =>
    ((\E k \in 1..Len(all_particles) : MapsOutside(all_particles[k].position))
       => \E k \in 1..Len(all_particles) :
            OutOfBounds(make_index_position(all_particles[k].position)))

(***************************************************************************)
(* C13.  The traversal stays inside the cell array.                        *)
(***************************************************************************)
\* the elements of a sequence
Elems(seq) == {seq[n] : n \in 1..Len(seq)}
\* every offset of the call a keeps the coordinate of its axis in range
OffsetsInRange(a) ==
  /\ \A dx \in Elems(a.xoffsets) :
       XOf(a.cell_index) + dx \in 0..(number_of_cells_[1] - 1)
  /\ \A dy \in Elems(a.yoffsets) :
       YOf(a.cell_index) + dy \in 0..(number_of_cells_[2] - 1)
  /\ \A dz \in Elems(a.zoffsets) :
       ZOf(a.cell_index) + dz \in 0..(number_of_cells_[3] - 1)

\* C13: on every constructed grid of either mode, every call of call_closure
\* that iterate_cells makes has a home index inside [0, nx*ny*nz), every
\* index home + offset it computes lies inside [0, nx*ny*nz) (so do the ones
\* that pass the j > i test and are handed over), and every offset keeps the
\* coordinate of its axis inside [0, count - 1].
C13_TraversalInsideCells ==
  Constructed =>
    /\ LET all_calls == ClosureCalls IN
       \A k \in 1..Len(all_calls) :
         /\ all_calls[k].cell_index \in CellIndices
         /\ OffsetsInRange(all_calls[k])
         /\ Elems(OffsetIndices(all_calls[k])) \subseteq CellIndices
    /\ \A k \in 1..Len(calls) :
         /\ calls[k].home \in CellIndices
         /\ Elems(calls[k].neighbors) \subseteq CellIndices

\* C13 witness: a finished traversal of a grid of several cells in which an
\* invocation computed indices on both sides of the j > i test.
C13_Witness ==
  /\ pc = "done"
  /\ CellsSize > 1
  /\ \E k \in 1..Len(calls) :
       /\ calls[k].neighbors /= << >>
       /\ Len(calls[k].neighbors) < Len(OffsetIndices(ClosureCalls[k]))

(***************************************************************************)
(* C14.  Scenario: 27 particles on a 3x3x3 lattice, open mode.             *)
(***************************************************************************)
\* construction has run beyond the resolution loop
PastResolution == pc \notin {"start", "resolved"}
\* the invocations made so far whose home is the cell (0,0,0)
CornerCalls == {k \in 1..Len(calls) : calls[k].home = make_index(0, 0, 0)}

\* C14 as stated: for the 27 particles of the lattice with spacing 2.5 in
\* Normal mode the constructed grid has 3x3x3 cells with one particle each,
\* and after the traversal the corner cell (0,0,0) was home once, with a
\* neighbor list of exactly 7 distinct cells.
C14_LatticeAsStated ==
  (Options = "Normal" /\ all_particles = Lattice(25) /\ Constructed) =>
    /\ number_of_cells_ = <<3, 3, 3>>
    /\ \A idx \in CellIndices : Len(cells_[idx]) = 1
    /\ pc = "done" =>
         \E k \in CornerCalls :
           /\ CornerCalls = {k}
           /\ Len(calls[k].neighbors) = 7
           /\ Cardinality(Elems(calls[k].neighbors)) = 7

\* C14 as amended: for the lattice with spacing 2.5 (extent 5.0 per axis) in
\* Normal mode the resolution loop yields ceil(5.0 / 2.5) = 2 cells per axis,
\* construction takes the dilute branch and yields the single cell holding
\* all 27 particles, and the only invocation has an empty neighbor list.  For
\* the lattice with spacing 3.0 (extent 6.0 per axis) construction yields
\* 3x3x3 cells with one particle each, and the corner cell (0,0,0) is home
\* once, with a neighbor list of exactly 7 distinct cells.
C14_Lattice ==
  /\ (Options = "Normal" /\ all_particles = Lattice(25)) =>
       /\ pc = "resolved" => number_of_cells_ = <<2, 2, 2>>
       /\ PastResolution =>
            /\ Constructed
            /\ number_of_cells_ = <<1, 1, 1>>
            /\ cells_[0] = all_particles
            /\ \A k \in 1..Len(calls) : calls[k] = [home |-> 0, neighbors |-> << >>]
            /\ pc = "done" => Len(calls) = 1
  /\ (Options = "Normal" /\ all_particles = Lattice(30) /\ PastResolution) =>
       /\ Constructed
       /\ number_of_cells_ = <<3, 3, 3>>
       /\ \A idx \in CellIndices : Len(cells_[idx]) = 1
       /\ pc = "done" =>
            \E k \in CornerCalls :
              /\ CornerCalls = {k}
              /\ Len(calls[k].neighbors) = 7
              /\ Cardinality(Elems(calls[k].neighbors)) = 7

\* C14 witness: the traversal of the grid built in Normal mode from the
\* lattice with spacing 2.5 has finished.
C14_Witness ==
  /\ Options = "Normal"
  /\ all_particles = Lattice(25)
  /\ pc = "done"
  /\ Len(calls) = 1

(***************************************************************************)
(* C15.  Scenario: wrap across x in periodic mode.                         *)
(***************************************************************************)
\* the particles at x = 9.9 of a periodic grid whose x extent is 10
WrapParticles ==
  IF Options = "PeriodicBoundaries" /\ Constructed /\ min_position_[1] = 0
     /\ length(1) = 100
  THEN {k \in 1..Len(all_particles) : all_particles[k].position[1] = 99}
  ELSE {}
\* the cell at x index x in the (y, z) row of the particle k
RowCell(k, x) ==
  make_index(x, 1 + CellCoord(all_particles[k].position, 2),
             CellCoord(all_particles[k].position, 3))
\* the particle k is in the rightmost interior cell of its row, and the ghost
\* cell at x index 0 of that row holds its copy with x = -0.1
RightmostWithImage(k) ==
  /\ \E m \in 1..Len(cells_[RowCell(k, number_of_cells_[1] - 2)]) :
       cells_[RowCell(k, number_of_cells_[1] - 2)][m] = all_particles[k]
  /\ \E m \in 1..Len(cells_[RowCell(k, 0)]) :
       cells_[RowCell(k, 0)][m] =
         [all_particles[k] EXCEPT !.position[1] = -1]

\* C15 as stated: the particle at x = 9.9 is in the rightmost interior cell
\* of its row, the ghost cell at x index 0 of the row holds its copy with
\* x = -0.1, and after the traversal that ghost cell was in the neighbor list
\* of the invocation whose home is the leftmost interior cell of the row.
C15_WrapAsStated ==
  \A k \in WrapParticles :
    /\ RightmostWithImage(k)
    /\ pc = "done" =>
         \E c \in 1..Len(calls) :
           /\ calls[c].home = RowCell(k, 1)
           /\ RowCell(k, 0) \in Elems(calls[c].neighbors)

\* C15 as amended: the particle at x = 9.9 is in the rightmost interior cell
\* of its row and the ghost cell at x index 0 of the row holds its copy with
\* x = -0.1; that ghost cell is never in the neighbor list of the leftmost
\* interior cell of the row (its index is the smaller one); the wrap within
\* the row is handed over from the other end: the ghost cell at x index nx-1
\* holds the particles of the leftmost interior cell shifted by +10 and is
\* in the neighbor list of the rightmost interior cell.
C15_Wrap ==
  \A k \in WrapParticles :
    /\ RightmostWithImage(k)
    /\ \A c \in 1..Len(calls) :
         calls[c].home = RowCell(k, 1) => RowCell(k, 0) \notin Elems(calls[c].neighbors)
    /\ cells_[RowCell(k, number_of_cells_[1] - 1)] =
         GhostCopy(cells_[RowCell(k, 1)], <<100, 0, 0>>)
    /\ pc = "done" =>
         \E c \in 1..Len(calls) :
           /\ calls[c].home = RowCell(k, number_of_cells_[1] - 2)
           /\ RowCell(k, number_of_cells_[1] - 1) \in Elems(calls[c].neighbors)

\* C15 witness: a finished periodic traversal of a grid with x extent 10 and
\* several interior cells along x that holds a particle at x = 9.9.
C15_Witness ==
  /\ pc = "done"
  /\ WrapParticles /= {}
  /\ number_of_cells_[1] >= 4
  /\ \E k \in WrapParticles : cells_[RowCell(k, 1)] /= << >>

(***************************************************************************)
(* C16.  Scenario: two particles at (0,0,0) and (10,0,0), open mode.       *)
(***************************************************************************)
\* C16: for the two particles at (0,0,0) and (10,0,0) in Normal mode
\* floor(cbrt(N)) is 1, ceil(extent / 2.5) is 4 on x, the resolution loop
\* yields 1 cell on x, y and z, construction yields the single cell holding
\* both particles, and the traversal makes exactly one invocation, with both
\* particles in the home list and an empty neighbor list.
C16_TwoParticles ==
  (Options = "Normal" /\ all_particles = TwoParticles) =>
    /\ max_cells = 1
    /\ pc = "resolved" => (CeilOfExtent(1) = 4 /\ number_of_cells_ = <<1, 1, 1>>)
    /\ PastResolution =>
         /\ Constructed
         /\ number_of_cells_ = <<1, 1, 1>>
         /\ DOMAIN cells_ = {0}
         /\ IdsOf(cells_[0]) = {1, 2}
         /\ \A k \in 1..Len(calls) : calls[k] = [home |-> 0, neighbors |-> << >>]
         /\ pc = "done" => Len(calls) = 1

\* C16 witness: the traversal of the grid built in Normal mode from the two
\* particles has finished.
C16_Witness ==
  /\ Options = "Normal"
  /\ all_particles = TwoParticles
  /\ pc = "done"
  /\ Len(calls) = 1
  /\ HomeIds(calls[1]) = {1, 2}

(***************************************************************************)
(* C17.  The particle list of the caller is not changed.                   *)
(***************************************************************************)
\* every particle stored in a cell that is not a ghost cell is the particle
\* of the caller's list with that id, position included
NonGhostKeepOriginal ==
  (pc = "filled" \/ Constructed) =>
    \A idx \in CellIndices :
      ~IsGhostIndex(idx) =>
        \A m \in 1..Len(cells_[idx]) :
          /\ cells_[idx][m].id \in 1..Len(all_particles)
          /\ cells_[idx][m] = all_particles[cells_[idx][m].id]

\* C17: no step of construction and no step of any traversal changes the
\* particle list of the caller, and after every step every particle stored
\* in a cell that is not a ghost cell has the position the caller gave it
\* (so a stored particle with another position is a copy in a ghost cell).
C17_CallerUnchanged ==
  [][all_particles' = all_particles /\ NonGhostKeepOriginal']_vars

\* C17 witness: a traversal of a periodic grid has finished, a ghost cell
\* holds a shifted copy, and the list of the caller is as it was handed in.
C17_Witness ==
  /\ Options = "PeriodicBoundaries"
  /\ pc = "done"
  /\ \E idx \in CellIndices : \E m \in 1..Len(cells_[idx]) :
       /\ IsGhostIndex(idx)
       /\ cells_[idx][m].position /= all_particles[cells_[idx][m].id].position
  /\ \A k \in 1..Len(all_particles) : all_particles[k].id = k

(***************************************************************************)
(* C18.  No stale neighbors.                                               *)
(***************************************************************************)
\* the cells selected for the call a: the home index plus one offset of each
\* of its offset sets, where the sum exceeds the home index
SelectedCells(a) ==
  {j \in {a.cell_index + dz * number_of_cells_[2] * number_of_cells_[1]
                        + dy * number_of_cells_[1] + dx :
            dx \in Elems(a.xoffsets), dy \in Elems(a.yoffsets),
            dz \in Elems(a.zoffsets)} :
     j > a.cell_index}

\* C18: the neighbor list handed to every invocation holds exactly the cells
\* selected for that invocation's home cell and offset sets, each once, and
\* nothing of an earlier invocation; the reused buffer holds the list of the
\* latest invocation.
C18_NoStaleNeighbors ==
  pc \in {"iterating", "done"} =>
    LET all_calls == ClosureCalls IN
    /\ \A k \in 1..Len(calls) :
         /\ calls[k].home = all_calls[k].cell_index
         /\ Elems(calls[k].neighbors) = SelectedCells(all_calls[k])
         /\ Len(calls[k].neighbors) = Cardinality(SelectedCells(all_calls[k]))
    /\ Len(calls) > 0 => neighbors = calls[Len(calls)].neighbors

\* C18 witness: a finished traversal in which an invocation followed one
\* whose neighbor list held a cell that is not selected for the later one.
C18_Witness ==
  /\ pc = "done"
  /\ \E k \in 2..Len(calls) :
       /\ calls[k].neighbors /= << >>
       /\ Elems(calls[k - 1].neighbors) \ Elems(calls[k].neighbors) /= {}

(***************************************************************************)
(* C19.  Neighbor count bound.                                             *)
(***************************************************************************)
\* C19: the neighbor list of every invocation, in either mode and on every
\* grid shape, holds at most 13 cells (the reserved capacity); in
\* PeriodicBoundaries mode it holds exactly 13 cells, all distinct.
C19_NeighborCount ==
  pc \in {"iterating", "done"} =>
    \A k \in 1..Len(calls) :
      /\ Len(calls[k].neighbors) <= reserved_neighbors
      /\ Options = "PeriodicBoundaries" =>
           /\ Len(calls[k].neighbors) = reserved_neighbors
           /\ Cardinality(Elems(calls[k].neighbors)) = reserved_neighbors

\* C19 witness: a finished periodic traversal with several home cells, each
\* of which received 13 neighbor cells.
C19_Witness ==
  /\ Options = "PeriodicBoundaries"
  /\ pc = "done"
  /\ Len(calls) >= 2
  /\ \A k \in 1..Len(calls) : Len(calls[k].neighbors) = reserved_neighbors

(***************************************************************************)
(* C20.  No more cells than particles.                                     *)
(***************************************************************************)
\* the number of cells that can hold particles of the caller: all cells in
\* Normal mode, the cells that are not ghost cells in PeriodicBoundaries mode
\* (before the cell array exists: the product of the resolved counts)
HolderCells ==
  IF pc = "resolved"
  THEN number_of_cells_[1] * number_of_cells_[2] * number_of_cells_[3]
  ELSE IF Options = "PeriodicBoundaries"
       THEN Cardinality({idx \in CellIndices : ~StatedGhost(idx)})
       ELSE CellsSize

\* C20: for every non-empty particle list max_cells^3 <= N < (max_cells+1)^3,
\* and from the resolution loop on the number of cells that can hold
\* particles of the caller is at least 1 and at most N.
C20_CellsAtMostParticles ==
  /\ Len(all_particles) > 0
  /\ Cube(max_cells) <= Len(all_particles)
  /\ Len(all_particles) < Cube(max_cells + 1)
  /\ pc /= "start" => (HolderCells >= 1 /\ HolderCells <= Len(all_particles))

\* C20 witness: a constructed periodic grid of at least 8 particles with as
\* many cells that are not ghost cells as there are particles.
C20_Witness ==
  /\ Options = "PeriodicBoundaries"
  /\ Constructed
  /\ Len(all_particles) >= 8
  /\ HolderCells = Len(all_particles)

(***************************************************************************)
(* C21.  Unsupported configuration raises a domain error.                  *)
(***************************************************************************)
\* the mass numbers for which the claim says beta2 and beta4 are set
ListedMassNumbers == {238, 208, 197, 63}

\* C21: every call of y_l_0 returns a value when l is 2 or 4 and raises
\* std::domain_error for every other l; every call of
\* set_parameters_automatic returns with beta2, beta4 and the orientation set
\* when the mass number is 238, 208, 197 or 63, and for every other mass
\* number raises std::domain_error and leaves beta2, beta4 and the nuclear
\* orientation as they were.
C21_DomainErrors ==
  [][nucleus_vars' /= nucleus_vars =>
       /\ nucleus_call'.op = "y_l_0" =>
            /\ nucleus_call'.outcome =
                 (IF nucleus_call'.l \in {2, 4} THEN "returned" ELSE "domain_error")
            /\ UNCHANGED <<beta2_, beta4_, nuclear_orientation_>>
       /\ nucleus_call'.op = "set_parameters_automatic" =>
            IF number_of_particles \in ListedMassNumbers
            THEN /\ nucleus_call'.outcome = "returned"
                 /\ beta2_'.set /\ beta4_'.set /\ nuclear_orientation_'.set
            ELSE /\ nucleus_call'.outcome = "domain_error"
                 /\ UNCHANGED <<beta2_, beta4_, nuclear_orientation_>>]_vars

\* C21 witness: set_parameters_automatic has raised std::domain_error on a
\* nucleus of an unlisted mass number whose deformation parameters and
\* orientation are not set.
C21_Witness ==
  /\ number_of_particles \notin ListedMassNumbers
  /\ nucleus_call.op = "set_parameters_automatic"
  /\ nucleus_call.outcome = "domain_error"
  /\ ~beta2_.set /\ ~beta4_.set /\ ~nuclear_orientation_.set

(***************************************************************************)
(* C22.  The periodic half-shell covers every periodic cell adjacency      *)
(*       exactly once.                                                     *)
(***************************************************************************)
\* the number of cells of axis i that are not ghost cells
Interior(i) == number_of_cells_[i] - (IF i = 3 THEN 1 ELSE 2)
\* the coordinates <<x, y, z>> of a linear index
Coords(idx) == <<XOf(idx), YOf(idx), ZOf(idx)>>
\* the coordinates lie inside the cell array
InGrid(c) == \A i \in Axes : c[i] \in 0..(number_of_cells_[i] - 1)
\* the image of the cell b displaced by s periods, and the opposite image of a
ImageOf(b, s) == [i \in Axes |-> Coords(b)[i] + s[i] * Interior(i)]
\* the cell at the coordinates c holds the image of the cell b displaced by
\* s periods: it is b itself, or a ghost cell that mirrors b with that shift
HoldsImage(c, b, s) ==
  /\ InGrid(c)
  /\ IF s = <<0, 0, 0>> THEN make_index(c[1], c[2], c[3]) = b
     ELSE /\ is_ghost_cell(c[1], c[2], c[3])
          /\ copy_idx(c[1], c[2], c[3]) = b
          /\ position_shift(c[1], c[2], c[3]) = <<s[1] * length(1), s[2] * length(2),
                                                  s[3] * length(3)>>
\* the invocations with home h whose neighbor list has the cell at c
HandedOver(h, c) ==
  {k \in 1..Len(calls) :
     calls[k].home = h /\ make_index(c[1], c[2], c[3]) \in Elems(calls[k].neighbors)}
Periods == {<<sx, sy, sz>> : sx \in {-1, 0, 1}, sy \in {-1, 0, 1}, sz \in {-1, 0, 1}}
Negated(s) == <<-s[1], -s[2], -s[3]>>

\* C22: after a periodic traversal, for every pair of cells a, b that are not
\* ghost cells and every image of b (b displaced by -1, 0 or 1 period per
\* axis) whose coordinates differ from those of a by at most 1 on every axis,
\* a with itself excepted, exactly one invocation hands the adjacency over:
\* home a with the cell holding that image of b in the neighbor list, or home
\* b with the cell holding the opposite image of a in the neighbor list.
C22_PeriodicAdjacencyOnce ==
  (Options = "PeriodicBoundaries" /\ pc = "done") =>
    LET real == {idx \in CellIndices : ~is_ghost_cell(XOf(idx), YOf(idx), ZOf(idx))}
    IN \A a \in real : \A b \in real : \A s \in Periods :
         LET image == ImageOf(b, s)
             opposite == ImageOf(a, Negated(s))
         IN (/\ \A i \in Axes : Abs(image[i] - Coords(a)[i]) <= 1
             /\ ~(a = b /\ s = <<0, 0, 0>>))
            => Cardinality(
                 (IF HoldsImage(image, b, s) THEN HandedOver(a, image) ELSE {})
                 \cup (IF HoldsImage(opposite, a, Negated(s))
                       THEN HandedOver(b, opposite) ELSE {})) = 1

\* C22 witness: a finished periodic traversal of a grid with one layer of
\* cells in z and two cells that are not ghost cells along x, in which an
\* adjacency across the z period was handed over.
C22_Witness ==
  /\ Options = "PeriodicBoundaries"
  /\ pc = "done"
  /\ Interior(3) = 1
  /\ Interior(1) = 2
  /\ \E k \in 1..Len(calls) : \E m \in 1..Len(calls[k].neighbors) :
       /\ ZOf(calls[k].neighbors[m]) = 1
       /\ HoldsImage(Coords(calls[k].neighbors[m]), calls[k].home, <<0, 0, 1>>)

(***************************************************************************)
(* C23.  Safety margin on capped axes.                                     *)
(***************************************************************************)
\* the count of axis i was capped: ceil(extent / 2.5) exceeds max_cells
Capped(i) == CeilOfExtent(i) > max_cells
\* floor((p - min) * index_factor) on axis i
CoordOfPosition(p, i) == CellCoord([j \in Axes |-> p], i)

\* C23: on an axis whose count was capped the extent is strictly positive,
\* every position p with min <= p <= max has the cell coordinate
\* floor((p - min) * index_factor) in [0, max_cells - 1], and the position
\* max has the coordinate max_cells - 1.
C23_CappedAxisMargin ==
  pc /= "start" =>
    \A i \in Axes :
      Capped(i) =>
        /\ Extent(i) > 0
        /\ index_factor_[i].den > 0
        /\ \A p \in min_position_[i]..max_position[i] :
             CoordOfPosition(p, i) \in 0..(max_cells - 1)
        /\ CoordOfPosition(max_position[i], i) = max_cells - 1

\* C23 witness: the resolution loop has capped an axis to max_cells >= 2 and
\* a particle lies on the maximum of that axis.
C23_Witness ==
  /\ pc = "resolved"
  /\ \E i \in Axes :
       /\ Capped(i)
       /\ max_cells >= 2
       /\ number_of_cells_[i] = max_cells
       /\ \E k \in 1..Len(all_particles) :
            /\ all_particles[k].position[i] = max_position[i]
            /\ CellCoord(all_particles[k].position, i) = max_cells - 1

(***************************************************************************)
(* C24.  The cell width is never below the interaction length.             *)
(***************************************************************************)
\* the cell coordinates on axis i of all positions between min and max
CoordsOfAxis(i) ==
  [p \in min_position_[i]..max_position[i] |-> CoordOfPosition(p, i)]

\* C24: after the resolution loop the cell width 1 / index_factor of every
\* axis is 2.5 when the axis is not capped and more than 2.5 when it is
\* capped, and two positions between min and max that differ by at most 2.5
\* on an axis have cell coordinates on that axis that differ by at most 1.
C24_CellWidth ==
  pc = "resolved" =>
    \A i \in Axes :
      /\ index_factor_[i].num > 0
      /\ IF Capped(i)
         THEN index_factor_[i].den > 25 * index_factor_[i].num
         ELSE index_factor_[i].den = 25 * index_factor_[i].num
      /\ LET coord == CoordsOfAxis(i) IN
         \A p \in DOMAIN coord : \A q \in DOMAIN coord :
           (p <= q /\ q - p <= 25) => (coord[q] - coord[p] \in {0, 1})

\* C24 witness: the resolution loop has left one axis with two cells of
\* width 2.5 and has capped another axis to two cells wider than 2.5.
C24_Witness ==
  /\ pc = "resolved"
  /\ \E i \in Axes : ~Capped(i) /\ number_of_cells_[i] = 2
  /\ \E i \in Axes :
       /\ Capped(i)
       /\ number_of_cells_[i] = 2
       /\ index_factor_[i].den > 25 * index_factor_[i].num

(***************************************************************************)
(* C25.  Ghost mirrors are interior.                                       *)
(***************************************************************************)
\* the mirror index the ghost filling computes for the cell idx
MirrorIndex(idx) == copy_idx(XOf(idx), YOf(idx), ZOf(idx))

\* C25: in PeriodicBoundaries mode, once the cell array exists, the mirror
\* index of every ghost cell is a valid index of a cell with x in [1, nx-2],
\* y in [1, ny-2] and z in [0, nz-2], which is not a ghost cell; and after
\* construction every ghost cell holds the shifted copy of what its mirror
\* cell holds, whatever the order of the filling.
C25_GhostMirrorsInterior ==
  (Options = "PeriodicBoundaries"
   /\ pc \in {"allocated", "filled", "constructed", "iterating", "done"}) =>
    \A idx \in CellIndices :
      StatedGhost(idx) =>
        /\ MirrorIndex(idx) \in CellIndices
        /\ XOf(MirrorIndex(idx)) \in 1..(number_of_cells_[1] - 2)
        /\ YOf(MirrorIndex(idx)) \in 1..(number_of_cells_[2] - 2)
        /\ ZOf(MirrorIndex(idx)) \in 0..(number_of_cells_[3] - 2)
        /\ ~StatedGhost(MirrorIndex(idx))
        /\ Constructed =>
             cells_[idx] = GhostCopy(cells_[MirrorIndex(idx)],
                                     position_shift(XOf(idx), YOf(idx), ZOf(idx)))

\* C25 witness: a constructed periodic grid whose corner ghost cell at x = 0,
\* y = 0 and the last z holds the copy of a cell that is not a ghost cell.
C25_Witness ==
  /\ Options = "PeriodicBoundaries"
  /\ pc = "constructed"
  /\ LET corner == make_index(0, 0, number_of_cells_[3] - 1) IN
       /\ cells_[corner] /= << >>
       /\ ~StatedGhost(MirrorIndex(corner))
       /\ IdsOf(cells_[corner]) = IdsOf(cells_[MirrorIndex(corner)])

(***************************************************************************)
(* C26.  The index filter equals the forward stencil.                      *)
(***************************************************************************)
\* the offset (dx, dy, dz) is lexicographically positive in (dz, dy, dx) order
LexPositive(dx, dy, dz) ==
  \/ dz > 0
  \/ dz = 0 /\ dy > 0
  \/ dz = 0 /\ dy = 0 /\ dx > 0
\* the cells at the lexicographically positive offsets of the call a
ForwardStencil(a) ==
  {a.cell_index + dz * number_of_cells_[2] * number_of_cells_[1]
                + dy * number_of_cells_[1] + dx :
     <<dx, dy, dz>> \in {o \in Elems(a.xoffsets) \X Elems(a.yoffsets) \X Elems(a.zoffsets) :
                           LexPositive(o[1], o[2], o[3])}}

\* C26: for every invocation made, the neighbor list holds exactly the cells
\* at the offsets of its offset sets that are lexicographically positive in
\* (dz, dy, dx) order, in strictly increasing linear index (so no cell
\* twice), and never the home cell.
C26_FilterIsForwardStencil ==
  pc \in {"iterating", "done"} =>
    LET all_calls == ClosureCalls IN
    \A k \in 1..Len(calls) :
      /\ Elems(calls[k].neighbors) = ForwardStencil(all_calls[k])
      /\ \A m \in 1..(Len(calls[k].neighbors) - 1) :
           calls[k].neighbors[m] < calls[k].neighbors[m + 1]
      /\ calls[k].home \notin Elems(calls[k].neighbors)

\* C26 witness: a finished traversal of a Normal grid with several cells on
\* every axis in which a cell with the full offset sets was home.
C26_Witness ==
  /\ pc = "done"
  /\ Options = "Normal"
  /\ \A i \in Axes : number_of_cells_[i] >= 2
  /\ \E k \in 1..Len(calls) :
       /\ Len(calls[k].neighbors) = reserved_neighbors
       /\ Len(OffsetIndices(ClosureCalls[k])) > reserved_neighbors
====
